---- MODULE Spec2Model ----
(***************************************************************************)
(* Model of the directive CLI: the deploy pipeline (commands/deploy.ts),   *)
(* the delete, list and status commands, and the Deployment Backend the    *)
(* client talks to through ApiService.  One CLI invocation runs at a time; *)
(* every await of a handler is one step.                                   *)
(***************************************************************************)
EXTENDS Integers, Sequences, FiniteSets, TLC

\* Number of version identifiers the backend can hold for the agent.
MaxVersions == 3

VersionIds == 1..MaxVersions

\* Longest compiled bundle, in bytes.
MaxArtifactLen == 1

ByteValues == {0, 1}

\* The possible contents of dist/<name>.js.
Artifacts == UNION {[1..n -> ByteValues] : n \in 1..MaxArtifactLen}

\* A SHA-256 digest in hexadecimal has 64 digits.
DigestLen == 64

\* .substring(0, 16)
HashPrefixLen == 16

\* AgentVersion.status, plus "none" for "no record with that identifier".
VersionStatus == {"active", "inactive", "rollback"}

\* --strategy is a free string for commander: "other" is any unrecognised value.
Strategies == {"strict", "warn", "auto-commit", "ignore", "other"}

\* The text thrown by the git guard under strict.
PolicyPhrase == "Working directory has uncommitted changes"

\* --message is a free string: absent, a text that does not contain
\* PolicyPhrase ("plain"), or a text that contains it ("phrase").
MessageKinds == {"none", "plain", "phrase"}

VARIABLES
    authToken,   \* local config holds an auth token
    user,        \* local config holds a user profile
    inProject,   \* ./directive-conf.ts and ./agents exist
    agentLocal,  \* agents/<name>/ with agent.ts and agent.json exists
    tree,        \* git working tree: "clean" or "dirty"
    agentRec,    \* backend: the agent record <project>/<name> exists
    versions,    \* backend: version identifier -> status or "none"
    cmd,         \* running invocation: "none", "deploy", "delete",
                 \* "deleteApp", "list", "status"
    pc,          \* position inside the handler
    opts,        \* command-line options of the invocation
    log,         \* external calls made by this invocation, in order
    exitCode,    \* -1 while running, 0 normal completion, 1 process.exit(1)
    report,      \* what the invocation printed last (message, cause...)
    versions0,   \* versions when the invocation started
    queried,     \* result of GET versions in delete --version
    manifest,    \* upload manifest assembled by prepareBundleForUpload
    result,      \* value returned by uploadBundleToServer
    gitSeen,     \* what `git status --porcelain` told this invocation
    failed,      \* position at which the invocation threw, or "none"
    warnings,    \* warnings logged by this invocation
    listing,     \* icons rendered by list --versions, per version
    answer,      \* answer to the confirmation prompt: "none", "yes", "no"
    cause,       \* message of the error first thrown inside the failing step
    response,    \* what came back from POST /api/deployments/upload
    commitMsg,   \* message given to `git commit` by this invocation
    artifact,    \* bytes of the compiled bundle read by this invocation
    advice       \* status command: the agent's status and the lines printed
                 \* under "recommended actions"

vars == <<authToken, user, inProject, agentLocal, tree, agentRec, versions,
          cmd, pc, opts, log, exitCode, report, versions0, queried,
          manifest, result, gitSeen, failed, warnings, listing,
          answer, cause, response, commitMsg, artifact, advice>>

localVars == <<authToken, user, inProject, agentLocal>>

\* What an invocation has read or computed so far.
auxVars == <<response, commitMsg, artifact, advice>>

obsVars == <<queried, manifest, result, gitSeen, warnings, listing, answer,
             auxVars>>

NoVersions == [v \in VersionIds |-> "none"]

NoOpts == [strategy |-> "strict", message |-> "none", force |-> FALSE,
           all |-> FALSE, version |-> 0]

NoResult == [present |-> FALSE, version |-> 0, bundleSize |-> 0]

NoManifest == [buildHash |-> <<>>, buildTime |-> "none", deps |-> "none",
               gitCommit |-> FALSE, version |-> "none"]

NoQuery == [done |-> FALSE, vs |-> NoVersions]

NoListing == [v \in VersionIds |-> "none"]

NoAdvice == [status |-> "none", lines |-> <<>>]

Count(s, e) == Cardinality({i \in 1..Len(s) : s[i] = e})

ActiveSet(vs) == {v \in VersionIds : vs[v] = "active"}

Recorded(vs) == {v \in VersionIds : vs[v] # "none"}

(***************************************************************************)
(* Deployment Backend                                                      *)
(***************************************************************************)

\* Variant: the previously active version keeps its status.
BackendUploadKeepsActive(vs, nv, demoted) == [vs EXCEPT ![nv] = "active"]

\* Variant: the previously active version is dropped instead of demoted.
BackendUploadDropsPrevious(vs, nv, demoted) ==
    [v \in VersionIds |->
        IF v = nv THEN "active"
        ELSE IF vs[v] = "active" THEN "none"
        ELSE vs[v]]

\* POST /deployments/upload accepted: the new version becomes active and the
\* previously active one is superseded.
BackendUpload(vs, nv, demoted) ==
    [v \in VersionIds |->
        IF v = nv THEN "active"
        ELSE IF vs[v] = "active" THEN demoted
        ELSE vs[v]]

\* The data payload of an accepted upload: the version recorded and the
\* size of the bundle received.
BackendResponseData(nv, bundle) ==
    [version |-> nv, bundleSize |-> Len(bundle)]

\* DELETE /agents/{id}/versions/{version}
BackendDeleteVersion(vs, v) == [vs EXCEPT ![v] = "none"]

\* DELETE /agents/{id}/versions
BackendDeleteAllVersions(vs) == NoVersions

(***************************************************************************)
(* Initial state                                                           *)
(***************************************************************************)

Init ==
    /\ authToken \in BOOLEAN
    /\ user \in BOOLEAN
    /\ inProject \in BOOLEAN
    /\ agentLocal \in BOOLEAN
    /\ tree \in {"clean", "dirty"}
    /\ agentRec \in BOOLEAN
    /\ versions = NoVersions
    /\ cmd = "none"
    /\ pc = "idle"
    /\ opts = NoOpts
    /\ log = <<>>
    /\ exitCode = -1
    /\ report = <<>>
    /\ versions0 = NoVersions
    /\ queried = NoQuery
    /\ manifest = NoManifest
    /\ result = NoResult
    /\ gitSeen = "notrun"
    /\ failed = "none"
    /\ warnings = {}
    /\ listing = NoListing
    /\ answer = "none"
    /\ cause = <<>>
    /\ response = "none"
    /\ commitMsg = "none"
    /\ artifact = <<>>
    /\ advice = NoAdvice

\* The invocation ends: code 1 is the catch block's process.exit(1) after
\* printing error.message, code 0 a plain return.
End(stage, code, msg) ==
    /\ pc' = "done"
    /\ exitCode' = code
    /\ report' = msg
    /\ failed' = IF code = 1 THEN stage ELSE "none"

\* The step ends the invocation with the error it threw itself (code 1) or
\* with a plain return (code 0).
FinishAt(stage, code, msg) ==
    /\ End(stage, code, msg)
    /\ cause' = IF code = 1 THEN msg ELSE <<>>

Finish(code, msg) == FinishAt(pc, code, msg)

Goto(next) ==
    /\ pc' = next
    /\ UNCHANGED <<exitCode, report, failed, cause>>

\* `${prefix}: ${error.message}`
Wrap(prefix, c) == <<prefix>> \o c

\* catch (error) { throw new Error(`${prefix}: ${error.message}`) }: the
\* error c thrown inside the step leaves it as a new Error.
Rethrow(prefix, c) ==
    /\ End(pc, 1, Wrap(prefix, c))
    /\ cause' = c

(***************************************************************************)
(* directive deploy agent <name>                                           *)
(***************************************************************************)

\* The pipeline stages of deployCommand, as log events and as positions.
StageEvents == <<"checkGitStatus", "build", "prepare", "upload">>

StagePcs == <<"git", "build", "prepare", "upload">>

\* The action callback up to its first await: the type argument check.
DeployStart ==
    /\ cmd = "none"
    /\ \E type \in {"agent", "other"}, st \in Strategies,
          m \in MessageKinds, f \in BOOLEAN :
        /\ cmd' = "deploy"
        /\ opts' = [strategy |-> st, message |-> m, force |-> f,
                    all |-> FALSE, version |-> 0]
        /\ IF type # "agent"
           THEN Finish(1, <<"Only agent deployment is supported">>)
           ELSE Goto("auth")
    /\ log' = <<>>
    /\ versions0' = versions
    /\ UNCHANGED <<localVars, tree, agentRec, versions, obsVars>>

\* Variant: the token is not looked at.
DeployEnsureAuthenticatedSkipped ==
    /\ cmd = "deploy" /\ pc = "auth"
    /\ Goto("project")
    /\ UNCHANGED <<localVars, tree, agentRec, versions, cmd, opts, log,
                   versions0, obsVars>>

DeployEnsureAuthenticated ==
    /\ cmd = "deploy" /\ pc = "auth"
    /\ IF ~authToken
       THEN Finish(1, <<"Authentication required">>)
       ELSE Goto("project")
    /\ UNCHANGED <<localVars, tree, agentRec, versions, cmd, opts, log,
                   versions0, obsVars>>

\* validateDirectiveProject, then getProjectName reading directive-conf.ts.
DeployValidateDirectiveProject ==
    /\ cmd = "deploy" /\ pc = "project"
    /\ \E nameOk \in BOOLEAN :
        IF ~inProject
        THEN Finish(1, <<"Not in a Directive project">>)
        ELSE IF ~nameOk
        THEN Rethrow("Cannot read project configuration",
                            <<"Cannot find application name">>)
        ELSE Goto("agentId")
    /\ UNCHANGED <<localVars, tree, agentRec, versions, cmd, opts, log,
                   versions0, obsVars>>

GetAgentId ==
    /\ cmd = "deploy" /\ pc = "agentId"
    /\ log' = Append(log, "getAgents")
    /\ \E ok \in BOOLEAN :
        IF ~ok
        THEN Rethrow("Cannot retrieve agent ID", <<"request failed">>)
        ELSE IF ~agentRec
        THEN Rethrow("Cannot retrieve agent ID",
                            <<"Agent not found in database">>)
        ELSE Goto("agentExists")
    /\ UNCHANGED <<localVars, tree, agentRec, versions, cmd, opts,
                   versions0, obsVars>>

\* Variant: the local files are not looked at.
ValidateAgentExistsSkipped ==
    /\ cmd = "deploy" /\ pc = "agentExists"
    /\ Goto("git")
    /\ UNCHANGED <<localVars, tree, agentRec, versions, cmd, opts, log,
                   versions0, obsVars>>

\* fs.access on agents/<name>, agents/<name>/agent.ts and
\* agents/<name>/agent.json.
ValidateAgentExists ==
    /\ cmd = "deploy" /\ pc = "agentExists"
    /\ IF ~agentLocal
       THEN Finish(1, <<"Agent not found in agents/">>)
       ELSE Goto("git")
    /\ UNCHANGED <<localVars, tree, agentRec, versions, cmd, opts, log,
                   versions0, obsVars>>

Elements(q) == {q[i] : i \in 1..Len(q)}

\* execSync's error for a failing `git status --porcelain`.
StatusError == <<"Command failed: git status --porcelain">>

\* options.message || `Deploy agent: ${new Date().toISOString()}`
CommitMessage(message) == IF message = "none" THEN "generated" ELSE message

\* execSync's error for a failing `git add . && git commit -m "${message}"`:
\* its message holds the command line, hence the commit message.
CommitError(message) ==
    <<"Command failed: git add . && git commit -m",
      IF message = "phrase" THEN PolicyPhrase ELSE CommitMessage(message)>>

\* checkGitStatus returns normally.  calls: the git commands run; seen: what
\* the status query told; tree: the working tree afterwards; commitMsg: the
\* message given to git commit.
GuardReturn(calls, seen, t, msg) ==
    [calls |-> calls, seen |-> seen, tree |-> t, blocked |-> FALSE,
     warn |-> {}, commitMsg |-> msg, error |-> <<>>]

\* The catch block of checkGitStatus: an error whose message includes
\* PolicyPhrase is thrown again, any other is logged as a warning.
GuardCatch(err, calls, seen, t, msg) ==
    IF PolicyPhrase \in Elements(err)
    THEN [GuardReturn(calls, seen, t, msg)
             EXCEPT !.blocked = TRUE, !.error = err]
    ELSE [GuardReturn(calls, seen, t, msg)
             EXCEPT !.warn = {"Cannot check Git status"}]

\* Variant: strict is handled like an unrecognised strategy (no throw).
GitGuardStrictPasses(strategy, gitOk, t, commitOk, message) ==
    IF strategy = "ignore" THEN GuardReturn(<<>>, "notrun", t, "none")
    ELSE IF ~gitOk
    THEN GuardCatch(StatusError, <<"gitStatus">>, "failed", t, "none")
    ELSE IF t = "clean"
    THEN GuardReturn(<<"gitStatus">>, "clean", t, "none")
    ELSE IF strategy = "warn"
    THEN [GuardReturn(<<"gitStatus">>, "dirty", t, "none")
             EXCEPT !.warn = {PolicyPhrase}]
    ELSE IF strategy = "auto-commit"
    THEN IF commitOk
         THEN GuardReturn(<<"gitStatus", "commit">>, "dirty", "clean",
                          CommitMessage(message))
         ELSE GuardCatch(CommitError(message), <<"gitStatus", "commit">>,
                         "dirty", t, CommitMessage(message))
    ELSE GuardReturn(<<"gitStatus">>, "dirty", t, "none")

\* Variant: no early return for ignore, the status query always runs.
GitGuardIgnoreInspects(strategy, gitOk, t, commitOk, message) ==
    IF ~gitOk
    THEN GuardCatch(StatusError, <<"gitStatus">>, "failed", t, "none")
    ELSE IF t = "clean"
    THEN GuardReturn(<<"gitStatus">>, "clean", t, "none")
    ELSE IF strategy = "strict"
    THEN GuardCatch(<<PolicyPhrase>>, <<"gitStatus">>, "dirty", t, "none")
    ELSE IF strategy = "warn"
    THEN [GuardReturn(<<"gitStatus">>, "dirty", t, "none")
             EXCEPT !.warn = {PolicyPhrase}]
    ELSE IF strategy = "auto-commit"
    THEN IF commitOk
         THEN GuardReturn(<<"gitStatus", "commit">>, "dirty", "clean",
                          CommitMessage(message))
         ELSE GuardCatch(CommitError(message), <<"gitStatus", "commit">>,
                         "dirty", t, CommitMessage(message))
    ELSE GuardReturn(<<"gitStatus">>, "dirty", t, "none")

\* Variant: warn throws like strict.
GitGuardWarnBlocks(strategy, gitOk, t, commitOk, message) ==
    IF strategy = "ignore" THEN GuardReturn(<<>>, "notrun", t, "none")
    ELSE IF ~gitOk
    THEN GuardCatch(StatusError, <<"gitStatus">>, "failed", t, "none")
    ELSE IF t = "clean"
    THEN GuardReturn(<<"gitStatus">>, "clean", t, "none")
    ELSE IF strategy = "strict"
    THEN GuardCatch(<<PolicyPhrase>>, <<"gitStatus">>, "dirty", t, "none")
    ELSE IF strategy = "warn"
    THEN GuardCatch(<<PolicyPhrase>>, <<"gitStatus">>, "dirty", t, "none")
    ELSE IF strategy = "auto-commit"
    THEN IF commitOk
         THEN GuardReturn(<<"gitStatus", "commit">>, "dirty", "clean",
                          CommitMessage(message))
         ELSE GuardCatch(CommitError(message), <<"gitStatus", "commit">>,
                         "dirty", t, CommitMessage(message))
    ELSE GuardReturn(<<"gitStatus">>, "dirty", t, "none")

\* Variant: warn commits the changes like auto-commit.
GitGuardWarnCommits(strategy, gitOk, t, commitOk, message) ==
    IF strategy = "ignore" THEN GuardReturn(<<>>, "notrun", t, "none")
    ELSE IF ~gitOk
    THEN GuardCatch(StatusError, <<"gitStatus">>, "failed", t, "none")
    ELSE IF t = "clean"
    THEN GuardReturn(<<"gitStatus">>, "clean", t, "none")
    ELSE IF strategy = "strict"
    THEN GuardCatch(<<PolicyPhrase>>, <<"gitStatus">>, "dirty", t, "none")
    ELSE IF strategy = "warn"
    THEN GuardReturn(<<"gitStatus", "commit">>, "dirty", "clean",
                     CommitMessage(message))
    ELSE IF strategy = "auto-commit"
    THEN IF commitOk
         THEN GuardReturn(<<"gitStatus", "commit">>, "dirty", "clean",
                          CommitMessage(message))
         ELSE GuardCatch(CommitError(message), <<"gitStatus", "commit">>,
                         "dirty", t, CommitMessage(message))
    ELSE GuardReturn(<<"gitStatus">>, "dirty", t, "none")

\* checkGitStatus as a function of the strategy, of whether `git status
\* --porcelain` runs without error, of the working tree, of whether the
\* `git add . && git commit` command runs without error and of --message.
GitGuard(strategy, gitOk, t, commitOk, message) ==
    IF strategy = "ignore" THEN GuardReturn(<<>>, "notrun", t, "none")
    ELSE IF ~gitOk
    THEN GuardCatch(StatusError, <<"gitStatus">>, "failed", t, "none")
    ELSE IF t = "clean"
    THEN GuardReturn(<<"gitStatus">>, "clean", t, "none")
    ELSE IF strategy = "strict"
    THEN GuardCatch(<<PolicyPhrase>>, <<"gitStatus">>, "dirty", t, "none")
    ELSE IF strategy = "warn"
    THEN [GuardReturn(<<"gitStatus">>, "dirty", t, "none")
             EXCEPT !.warn = {PolicyPhrase}]
    ELSE IF strategy = "auto-commit"
    THEN IF commitOk
         THEN GuardReturn(<<"gitStatus", "commit">>, "dirty", "clean",
                          CommitMessage(message))
         ELSE GuardCatch(CommitError(message), <<"gitStatus", "commit">>,
                         "dirty", t, CommitMessage(message))
    ELSE GuardReturn(<<"gitStatus">>, "dirty", t, "none")

\* Variant: --force makes the guard skip the inspection, as ignore does.
CheckGitStatusForceSkips ==
    /\ cmd = "deploy" /\ pc = "git"
    /\ \E gitOk \in BOOLEAN, commitOk \in BOOLEAN :
        LET g == GitGuard(IF opts.force THEN "ignore" ELSE opts.strategy,
                          gitOk, tree, commitOk, opts.message)
        IN
        /\ log' = log \o <<"checkGitStatus">> \o g.calls
        /\ gitSeen' = g.seen
        /\ tree' = g.tree
        /\ warnings' = warnings \cup g.warn
        /\ commitMsg' = g.commitMsg
        /\ IF g.blocked THEN Finish(1, g.error) ELSE Goto("build")
    /\ UNCHANGED <<localVars, agentRec, versions, cmd, opts, versions0,
                   queried, manifest, result, listing, answer,
                   response, artifact, advice>>

CheckGitStatus ==
    /\ cmd = "deploy" /\ pc = "git"
    /\ \E gitOk \in BOOLEAN, commitOk \in BOOLEAN :
        LET g == GitGuard(opts.strategy, gitOk, tree, commitOk, opts.message)
        IN
        /\ log' = log \o <<"checkGitStatus">> \o g.calls
        /\ gitSeen' = g.seen
        /\ tree' = g.tree
        /\ warnings' = warnings \cup g.warn
        /\ commitMsg' = g.commitMsg
        /\ IF g.blocked THEN Finish(1, g.error) ELSE Goto("build")
    /\ UNCHANGED <<localVars, agentRec, versions, cmd, opts, versions0,
                   queried, manifest, result, listing, answer,
                   response, artifact, advice>>

\* Variant: the build error is caught and logged, the pipeline goes on.
CompileAgentSwallowsError ==
    /\ cmd = "deploy" /\ pc = "build"
    /\ log' = Append(log, "build")
    /\ \E ok \in BOOLEAN :
        IF ok
        THEN Goto("prepare")
        ELSE /\ pc' = "prepare"
             /\ failed' = "build"
             /\ report' = Wrap("Agent compilation failed", <<"Command failed">>)
             /\ cause' = <<"Command failed">>
             /\ UNCHANGED exitCode
    /\ UNCHANGED <<localVars, tree, agentRec, versions, cmd, opts,
                   versions0, obsVars>>

\* Variant: the new error carries the prefix only, the original message is
\* dropped.
CompileAgentDropsCause ==
    /\ cmd = "deploy" /\ pc = "build"
    /\ log' = Append(log, "build")
    /\ \E ok \in BOOLEAN :
        IF ok
        THEN Goto("prepare")
        ELSE /\ End(pc, 1, <<"Agent compilation failed">>)
             /\ cause' = <<"Command failed">>
    /\ UNCHANGED <<localVars, tree, agentRec, versions, cmd, opts,
                   versions0, obsVars>>

CompileAgent ==
    /\ cmd = "deploy" /\ pc = "build"
    /\ log' = Append(log, "build")
    /\ \E ok \in BOOLEAN :
        IF ok
        THEN Goto("prepare")
        ELSE Rethrow("Agent compilation failed", <<"Command failed">>)
    /\ UNCHANGED <<localVars, tree, agentRec, versions, cmd, opts,
                   versions0, obsVars>>

\* agent.json's version field and the clock at the time of the deploy.
DeclaredVersions == {"1.0.0", "1.1.0"}

BuildTimes == {"t1", "t2"}

\* The digest's running value over the bytes: stands for SHA-256, of which
\* only "a fixed function of the bytes fed to update()" is used.
RECURSIVE Fold(_)
Fold(bytes) ==
    IF bytes = <<>> THEN 7
    ELSE (31 * Fold(SubSeq(bytes, 1, Len(bytes) - 1))
            + bytes[Len(bytes)] + 1) % 65521

\* crypto.createHash('sha256').update(bytes).digest('hex'), as hex digits.
Digest(bytes) == [i \in 1..DigestLen |-> (Fold(bytes) * i + i * i) % 16]

\* Variant: the git revision is hashed together with the bundle.
BundleDataHashesRevision(bundle, version, buildTime, deps, gitCommit) ==
    [buildHash |-> SubSeq(Digest(bundle \o <<IF gitCommit THEN 1 ELSE 0>>),
                          1, HashPrefixLen),
     buildTime |-> buildTime,
     deps |-> deps,
     gitCommit |-> gitCommit,
     version |-> version]

\* Steps 6 and 8 of prepareBundleForUpload and its return value: the build
\* hash of the bundle, the manifest and the declared version.
BundleData(bundle, version, buildTime, deps, gitCommit) ==
    [buildHash |-> SubSeq(Digest(bundle), 1, HashPrefixLen),
     buildTime |-> buildTime,
     deps |-> deps,
     gitCommit |-> gitCommit,
     version |-> version]

\* Variant: an unreadable package.json is an error of the stage.
PrepareRequiresPackage(bundles, declared, times) ==
    /\ cmd = "deploy" /\ pc = "prepare"
    /\ \E compiled \in BOOLEAN, jsonOk \in BOOLEAN, pkgOk \in BOOLEAN,
          revOk \in BOOLEAN, bundle \in bundles,
          version \in declared, now \in times :
        IF ~compiled
        THEN /\ Rethrow("Failed to prepare bundle",
                        <<"Compiled agent not found">>)
             /\ log' = Append(log, "prepare")
             /\ UNCHANGED <<manifest, warnings, artifact>>
        ELSE IF ~jsonOk
        THEN /\ Rethrow("Failed to prepare bundle",
                        <<"agent.json unreadable">>)
             /\ log' = Append(log, "prepare")
             /\ artifact' = bundle
             /\ UNCHANGED <<manifest, warnings>>
        ELSE IF ~pkgOk
        THEN /\ Rethrow("Failed to prepare bundle",
                        <<"package.json unreadable">>)
             /\ log' = Append(log, "prepare")
             /\ artifact' = bundle
             /\ UNCHANGED <<manifest, warnings>>
        ELSE /\ artifact' = bundle
             /\ manifest' = BundleData(bundle, version, now, "read", revOk)
             /\ warnings' = warnings
             /\ log' = log \o <<"prepare", "gitRevParse">>
             /\ Goto("upload")
    /\ UNCHANGED <<localVars, tree, agentRec, versions, cmd, opts,
                   versions0, queried, result, gitSeen, listing, answer,
                   response, commitMsg, advice>>

\* prepareBundleForUpload, for a compiled bundle, a declared version and a
\* clock reading taken from the given sets.
Prepare(bundles, declared, times) ==
    /\ cmd = "deploy" /\ pc = "prepare"
    /\ \E compiled \in BOOLEAN, jsonOk \in BOOLEAN, pkgOk \in BOOLEAN,
          revOk \in BOOLEAN, bundle \in bundles,
          version \in declared, now \in times :
        IF ~compiled
        THEN /\ Rethrow("Failed to prepare bundle",
                        <<"Compiled agent not found">>)
             /\ log' = Append(log, "prepare")
             /\ UNCHANGED <<manifest, warnings, artifact>>
        ELSE IF ~jsonOk
        THEN /\ Rethrow("Failed to prepare bundle",
                        <<"agent.json unreadable">>)
             /\ log' = Append(log, "prepare")
             /\ artifact' = bundle
             /\ UNCHANGED <<manifest, warnings>>
        ELSE /\ artifact' = bundle
             /\ manifest' = BundleData(bundle, version, now,
                                       IF pkgOk THEN "read" ELSE "empty",
                                       revOk)
             /\ warnings' = IF pkgOk THEN warnings
                            ELSE warnings \cup
                                 {"Cannot read package.json dependencies"}
             /\ log' = log \o <<"prepare", "gitRevParse">>
             /\ Goto("upload")
    /\ UNCHANGED <<localVars, tree, agentRec, versions, cmd, opts,
                   versions0, queried, result, gitSeen, listing, answer,
                   response, commitMsg, advice>>

\* In the command-level specification the build leaves one fixed bundle
\* with one declared version; the contents are varied in SpecHash.
PrepareBundleForUpload == Prepare({<<1>>}, {"1.0.0"}, {"t1"})

\* Any bundle, any declared version, any build time.
PrepareAnyBundle == Prepare(Artifacts, DeclaredVersions, BuildTimes)

\* Identifiers the backend can give to a new version record.
FreeIds(vs) == {v \in VersionIds : vs[v] = "none"}

\* What can come back from the upload request: no response at all
\* (netfail), a non-2xx status (http), an envelope with success false and
\* an error text (rejected) or without one (rejectedNoMsg), an envelope
\* with success true and data (accepted), an envelope with success true and
\* no data (nodata), or a response lost after the backend recorded the
\* version (lost).
UploadOutcomes == {"netfail", "http", "rejected", "rejectedNoMsg",
                   "accepted", "nodata", "lost"}

\* The error thrown inside uploadBundleToServer's try block for an outcome
\* that is not a success: fetch's own error, `HTTP ${status}: ${errorText}`,
\* or result.error || 'Upload failed'.
UploadError(outcome) ==
    IF outcome = "http" THEN <<"HTTP status">>
    ELSE IF outcome = "rejected" THEN <<"backend error">>
    ELSE IF outcome = "rejectedNoMsg" THEN <<"Upload failed">>
    ELSE <<"fetch failed">>

\* Variant: the fields are read from the envelope, which has none of them.
DeploymentResultFromEnvelope(data) == [NoResult EXCEPT !.present = TRUE]

\* `return result.data`, as displayDeploymentResult reads it.
DeploymentResult(data) ==
    [present |-> TRUE, version |-> data.version,
     bundleSize |-> data.bundleSize]

\* Variant: the envelope's success flag is not looked at.
UploadBundleToServerIgnoresEnvelope ==
    /\ cmd = "deploy" /\ pc = "upload"
    /\ log' = Append(log, "upload")
    /\ \E outcome \in UploadOutcomes :
        /\ response' = outcome
        /\ IF outcome \in {"netfail", "http"}
           THEN /\ Rethrow("Failed to upload bundle", UploadError(outcome))
                /\ UNCHANGED <<versions, result>>
           ELSE /\ result' = [NoResult EXCEPT !.present = TRUE]
                /\ Finish(0, <<"Agent deployed successfully">>)
                /\ UNCHANGED versions
    /\ UNCHANGED <<localVars, tree, agentRec, cmd, opts, versions0, queried,
                   manifest, gitSeen, warnings, listing, answer,
                   commitMsg, artifact, advice>>

\* Variant: a request that got no response is sent a second time.
UploadBundleToServerRetries ==
    /\ cmd = "deploy" /\ pc = "upload"
    /\ \E outcome \in UploadOutcomes :
        /\ response' = outcome
        /\ log' = IF outcome = "netfail"
                  THEN log \o <<"upload", "upload">>
                  ELSE Append(log, "upload")
        /\ \/ /\ outcome \in {"netfail", "http", "rejected", "rejectedNoMsg"}
              /\ Rethrow("Failed to upload bundle", UploadError(outcome))
              /\ UNCHANGED <<versions, result>>
           \/ /\ outcome \in {"accepted", "nodata", "lost"}
              /\ \E nv \in FreeIds(versions),
                    demoted \in {"inactive", "rollback"} :
                   /\ versions' = BackendUpload(versions, nv, demoted)
                   /\ IF outcome = "accepted"
                      THEN /\ result' = DeploymentResult(
                                          BackendResponseData(nv, artifact))
                           /\ Finish(0, <<"Agent deployed successfully">>)
                      ELSE IF outcome = "nodata"
                      THEN /\ result' = NoResult
                           /\ FinishAt("display", 1,
                                  <<"Cannot read properties of undefined">>)
                      ELSE /\ result' = NoResult
                           /\ Rethrow("Failed to upload bundle",
                                      UploadError(outcome))
    /\ UNCHANGED <<localVars, tree, agentRec, cmd, opts, versions0, queried,
                   manifest, gitSeen, warnings, listing, answer,
                   commitMsg, artifact, advice>>

\* uploadBundleToServer followed by displayDeploymentResult.  The request
\* is sent once.
UploadBundleToServer ==
    /\ cmd = "deploy" /\ pc = "upload"
    /\ log' = Append(log, "upload")
    /\ \E outcome \in UploadOutcomes :
        /\ response' = outcome
        /\ \/ /\ outcome \in {"netfail", "http", "rejected", "rejectedNoMsg"}
              /\ Rethrow("Failed to upload bundle", UploadError(outcome))
              /\ UNCHANGED <<versions, result>>
           \/ /\ outcome \in {"accepted", "nodata", "lost"}
              /\ \E nv \in FreeIds(versions),
                    demoted \in {"inactive", "rollback"} :
                   /\ versions' = BackendUpload(versions, nv, demoted)
                   /\ IF outcome = "accepted"
                      THEN /\ result' = DeploymentResult(
                                          BackendResponseData(nv, artifact))
                           /\ Finish(0, <<"Agent deployed successfully">>)
                      ELSE IF outcome = "nodata"
                      THEN /\ result' = NoResult
                           /\ FinishAt("display", 1,
                                  <<"Cannot read properties of undefined">>)
                      ELSE /\ result' = NoResult
                           /\ Rethrow("Failed to upload bundle",
                                      UploadError(outcome))
    /\ UNCHANGED <<localVars, tree, agentRec, cmd, opts, versions0, queried,
                   manifest, gitSeen, warnings, listing, answer,
                   commitMsg, artifact, advice>>

(***************************************************************************)
(* directive delete agent <name> --all | --version <version>               *)
(***************************************************************************)

\* The action callback up to its first await: the option checks.
DeleteStart ==
    /\ cmd = "none"
    /\ \E a \in BOOLEAN, ver \in 0..MaxVersions, f \in BOOLEAN :
        /\ cmd' = "delete"
        /\ opts' = [strategy |-> "strict", message |-> "none", force |-> f,
                    all |-> a, version |-> ver]
        /\ IF a /\ ver # 0
           THEN Finish(1, <<"Cannot use --all and --version options together">>)
           ELSE IF ~a /\ ver = 0
           THEN Finish(1, <<"Must specify either --all or --version">>)
           ELSE Goto("auth")
    /\ log' = <<>>
    /\ versions0' = versions
    /\ UNCHANGED <<localVars, tree, agentRec, versions, obsVars>>

\* ConfigService.isLoggedIn: a token and a user profile.
DeleteEnsureAuthenticated ==
    /\ cmd = "delete" /\ pc = "auth"
    /\ IF ~(authToken /\ user)
       THEN Finish(1, <<"Authentication required">>)
       ELSE Goto("project")
    /\ UNCHANGED <<localVars, tree, agentRec, versions, cmd, opts, log,
                   versions0, obsVars>>

DeleteValidateDirectiveProject ==
    /\ cmd = "delete" /\ pc = "project"
    /\ \E nameOk \in BOOLEAN :
        IF ~inProject
        THEN Finish(1, <<"Not in a Directive project">>)
        ELSE IF ~nameOk
        THEN Rethrow("Cannot read project configuration",
                            <<"Cannot find application name">>)
        ELSE Goto("getAgents")
    /\ UNCHANGED <<localVars, tree, agentRec, versions, cmd, opts, log,
                   versions0, obsVars>>

\* apiService.getAgents() and the lookup of the agent by type.
DeleteGetAgents ==
    /\ cmd = "delete" /\ pc = "getAgents"
    /\ log' = Append(log, "getAgents")
    /\ \E ok \in BOOLEAN :
        IF ~ok
        THEN Finish(1, <<"request failed">>)
        ELSE IF ~agentRec
        THEN Finish(0, <<"Agent not found">>)
        ELSE IF opts.all
        THEN Goto(IF opts.force THEN "deleteAllVersions" ELSE "confirmAll")
        ELSE Goto("getVersions")
    /\ UNCHANGED <<localVars, tree, agentRec, versions, cmd, opts,
                   versions0, obsVars>>

\* deleteEntireAgent: the inquirer confirmation (skipped with --force).
ConfirmDeleteEntireAgent ==
    /\ cmd = "delete" /\ pc = "confirmAll"
    /\ log' = Append(log, "prompt")
    /\ \E confirmed \in BOOLEAN :
        /\ answer' = IF confirmed THEN "yes" ELSE "no"
        /\ IF ~confirmed
           THEN Finish(0, <<"Deletion cancelled">>)
           ELSE Goto("deleteAllVersions")
    /\ UNCHANGED <<localVars, tree, agentRec, versions, cmd, opts,
                   versions0, queried, manifest, result, gitSeen, warnings,
                   listing,
                   auxVars>>

\* Variant: deleteAllAgentVersions is awaited outside any try/catch.
DeleteAllAgentVersionsUncaught ==
    /\ cmd = "delete" /\ pc = "deleteAllVersions"
    /\ log' = Append(log, "deleteAllVersions")
    /\ \E outcome \in {"ok", "fail", "lost"} :
        /\ versions' = IF outcome = "fail"
                       THEN versions
                       ELSE BackendDeleteAllVersions(versions)
        /\ IF outcome = "ok"
           THEN Goto("deleteAgent")
           ELSE Finish(1, <<"Error deleting all agent versions">>)
    /\ UNCHANGED <<localVars, tree, agentRec, cmd, opts, versions0, obsVars>>

\* deleteEntireAgent: apiService.deleteAllAgentVersions inside its own
\* try/catch.  The backend may have deleted the versions although the
\* client sees a failure (lost).
DeleteAllAgentVersions ==
    /\ cmd = "delete" /\ pc = "deleteAllVersions"
    /\ log' = Append(log, "deleteAllVersions")
    /\ \E outcome \in {"ok", "fail", "lost"} :
        /\ versions' = IF outcome = "fail"
                       THEN versions
                       ELSE BackendDeleteAllVersions(versions)
        /\ warnings' = IF outcome = "ok"
                       THEN warnings
                       ELSE warnings \cup {"Could not delete bundle versions"}
    /\ Goto("deleteAgent")
    /\ UNCHANGED <<localVars, tree, agentRec, cmd, opts, versions0, queried,
                   manifest, result, gitSeen, listing, answer,
                   auxVars>>

\* Variant: deleting the agent record removes its versions with it.
DeleteAgentCascades ==
    /\ cmd = "delete" /\ pc = "deleteAgent"
    /\ log' = Append(log, "deleteAgent")
    /\ \E outcome \in {"ok", "fail", "lost"} :
        /\ agentRec' = IF outcome = "fail" THEN agentRec ELSE FALSE
        /\ versions' = IF outcome = "fail" THEN versions ELSE NoVersions
        /\ IF outcome = "ok"
           THEN Finish(0, <<"Agent and all versions deleted">>)
           ELSE Finish(1, <<"Error deleting agent">>)
    /\ UNCHANGED <<localVars, tree, cmd, opts, versions0, obsVars>>

\* deleteEntireAgent: apiService.deleteAgent, not caught locally.
DeleteAgent ==
    /\ cmd = "delete" /\ pc = "deleteAgent"
    /\ log' = Append(log, "deleteAgent")
    /\ \E outcome \in {"ok", "fail", "lost"} :
        /\ agentRec' = IF outcome = "fail" THEN agentRec ELSE FALSE
        /\ IF outcome = "ok"
           THEN Finish(0, <<"Agent and all versions deleted">>)
           ELSE Finish(1, <<"Error deleting agent">>)
    /\ UNCHANGED <<localVars, tree, versions, cmd, opts, versions0, obsVars>>

\* Variant: the active check is missing.
VersionCheckNoActiveGuard(q, ver) ==
    IF q[ver] = "none" THEN "notFound" ELSE "deletable"

\* Variant: the not-found check is missing.
VersionCheckNoFindGuard(q, ver) ==
    IF q[ver] = "active" THEN "active" ELSE "deletable"

\* Variant: only inactive versions pass, rollback ones are refused.
VersionCheckOnlyInactive(q, ver) ==
    IF q[ver] = "none" THEN "notFound"
    ELSE IF q[ver] # "inactive" THEN "active"
    ELSE "deletable"

\* deleteAgentVersion: versions.find by identifier and the active check.
VersionCheck(q, ver) ==
    IF q[ver] = "none" THEN "notFound"
    ELSE IF q[ver] = "active" THEN "active"
    ELSE "deletable"

\* deleteAgentVersion: apiService.getAgentVersions and the two checks.
GetAgentVersions ==
    /\ cmd = "delete" /\ pc = "getVersions"
    /\ log' = Append(log, "getVersions")
    /\ \E ok \in BOOLEAN :
        IF ~ok
        THEN /\ Finish(1, <<"Error retrieving agent versions">>)
             /\ UNCHANGED queried
        ELSE /\ queried' = [done |-> TRUE, vs |-> versions]
             /\ LET c == VersionCheck(versions, opts.version) IN
                IF c = "notFound"
                THEN Finish(0, <<"Version not found">>)
                ELSE IF c = "active"
                THEN Finish(0, <<"Cannot delete active version">>)
                ELSE Goto(IF opts.force THEN "deleteVersion"
                                        ELSE "confirmVersion")
    /\ UNCHANGED <<localVars, tree, agentRec, versions, cmd, opts,
                   versions0, manifest, result, gitSeen, warnings, listing,
                   answer,
                   auxVars>>

\* Variant: the answer to the confirmation is not looked at.
ConfirmDeleteAgentVersionIgnoresAnswer ==
    /\ cmd = "delete" /\ pc = "confirmVersion"
    /\ log' = Append(log, "prompt")
    /\ \E confirmed \in BOOLEAN :
        /\ answer' = IF confirmed THEN "yes" ELSE "no"
        /\ Goto("deleteVersion")
    /\ UNCHANGED <<localVars, tree, agentRec, versions, cmd, opts,
                   versions0, queried, manifest, result, gitSeen, warnings,
                   listing,
                   auxVars>>

\* deleteAgentVersion: the inquirer confirmation (skipped with --force).
ConfirmDeleteAgentVersion ==
    /\ cmd = "delete" /\ pc = "confirmVersion"
    /\ log' = Append(log, "prompt")
    /\ \E confirmed \in BOOLEAN :
        /\ answer' = IF confirmed THEN "yes" ELSE "no"
        /\ IF ~confirmed
           THEN Finish(0, <<"Deletion cancelled">>)
           ELSE Goto("deleteVersion")
    /\ UNCHANGED <<localVars, tree, agentRec, versions, cmd, opts,
                   versions0, queried, manifest, result, gitSeen, warnings,
                   listing,
                   auxVars>>

\* deleteAgentVersion: apiService.deleteAgentVersion(agentId, version).  The
\* backend answers success only for a version it holds; the response may be
\* lost after the backend removed the version.
DeleteAgentVersion ==
    /\ cmd = "delete" /\ pc = "deleteVersion"
    /\ log' = Append(log, "deleteVersion")
    /\ \E outcome \in {"ok", "fail", "lost"} :
        LET held == versions[opts.version] # "none" IN
        /\ versions' = IF outcome = "fail" \/ ~held
                       THEN versions
                       ELSE BackendDeleteVersion(versions, opts.version)
        /\ IF outcome = "ok" /\ held
           THEN Finish(0, <<"Version deleted">>)
           ELSE Finish(1, <<"Error deleting agent version">>)
    /\ UNCHANGED <<localVars, tree, agentRec, cmd, opts, versions0, obsVars>>

(***************************************************************************)
(* directive delete app <app-name>                                         *)
(* The application record is not part of the modelled backend state: the   *)
(* lookup finds it or not, and the DELETE is recorded in the log.          *)
(***************************************************************************)

DeleteAppStart ==
    /\ cmd = "none"
    /\ \E f \in BOOLEAN :
        opts' = [NoOpts EXCEPT !.force = f]
    /\ cmd' = "deleteApp"
    /\ Goto("auth")
    /\ log' = <<>>
    /\ versions0' = versions
    /\ UNCHANGED <<localVars, tree, agentRec, versions, obsVars>>

\* ConfigService.isLoggedIn: a token and a user profile.
DeleteAppEnsureAuthenticated ==
    /\ cmd = "deleteApp" /\ pc = "auth"
    /\ IF ~(authToken /\ user)
       THEN Finish(1, <<"Authentication required">>)
       ELSE Goto("getApplications")
    /\ UNCHANGED <<localVars, tree, agentRec, versions, cmd, opts, log,
                   versions0, obsVars>>

\* apiService.getApplications and the search by name or id.
DeleteAppGetApplications ==
    /\ cmd = "deleteApp" /\ pc = "getApplications"
    /\ log' = Append(log, "getApplications")
    /\ \E ok \in BOOLEAN, found \in BOOLEAN :
        IF ~ok
        THEN Finish(1, <<"request failed">>)
        ELSE IF ~found
        THEN Finish(0, <<"Application not found">>)
        ELSE Goto(IF opts.force THEN "deleteApplication" ELSE "confirmApp")
    /\ UNCHANGED <<localVars, tree, agentRec, versions, cmd, opts,
                   versions0, obsVars>>

\* The inquirer confirmation (skipped with --force).
ConfirmDeleteApp ==
    /\ cmd = "deleteApp" /\ pc = "confirmApp"
    /\ log' = Append(log, "prompt")
    /\ \E confirmed \in BOOLEAN :
        /\ answer' = IF confirmed THEN "yes" ELSE "no"
        /\ IF ~confirmed
           THEN Finish(0, <<"Deletion cancelled">>)
           ELSE Goto("deleteApplication")
    /\ UNCHANGED <<localVars, tree, agentRec, versions, cmd, opts,
                   versions0, queried, manifest, result, gitSeen, warnings,
                   listing, auxVars>>

\* apiService.deleteApplication(appName).
DeleteApplication ==
    /\ cmd = "deleteApp" /\ pc = "deleteApplication"
    /\ log' = Append(log, "deleteApplication")
    /\ \E ok \in BOOLEAN :
        IF ok
        THEN Finish(0, <<"Application deleted">>)
        ELSE Finish(1, <<"Error deleting application">>)
    /\ UNCHANGED <<localVars, tree, agentRec, versions, cmd, opts,
                   versions0, obsVars>>

(***************************************************************************)
(* directive list agents --versions <name>                                 *)
(***************************************************************************)

ListStart ==
    /\ cmd = "none"
    /\ cmd' = "list"
    /\ opts' = NoOpts
    /\ Goto("auth")
    /\ log' = <<>>
    /\ versions0' = versions
    /\ UNCHANGED <<localVars, tree, agentRec, versions, obsVars>>

\* ConfigService.isLoggedIn; a failure reaches the command's catch block.
ListEnsureAuthenticated ==
    /\ cmd = "list" /\ pc = "auth"
    /\ IF ~(authToken /\ user)
       THEN Finish(1, <<"Authentication required">>)
       ELSE Goto("project")
    /\ UNCHANGED <<localVars, tree, agentRec, versions, cmd, opts, log,
                   versions0, obsVars>>

\* listAgentVersions catches its own errors, prints them and returns.
ListValidateDirectiveProject ==
    /\ cmd = "list" /\ pc = "project"
    /\ \E nameOk \in BOOLEAN :
        IF ~inProject
        THEN Finish(0, <<"Not in a Directive project">>)
        ELSE IF ~nameOk
        THEN Finish(0, Wrap("Cannot read project configuration",
                            <<"Cannot find application name">>))
        ELSE Goto("getAgents")
    /\ UNCHANGED <<localVars, tree, agentRec, versions, cmd, opts, log,
                   versions0, obsVars>>

ListGetAgents ==
    /\ cmd = "list" /\ pc = "getAgents"
    /\ log' = Append(log, "getAgents")
    /\ \E ok \in BOOLEAN :
        IF ~ok
        THEN Finish(0, <<"request failed">>)
        ELSE IF ~agentRec
        THEN Finish(0, <<"Agent not found">>)
        ELSE Goto("getVersions")
    /\ UNCHANGED <<localVars, tree, agentRec, versions, cmd, opts,
                   versions0, obsVars>>

\* The icon listAgentVersions prints in front of a version.
StatusIcon(status) == IF status = "active" THEN "rocket" ELSE "package"

\* apiService.getAgentVersions and the rendering of each version.
ListGetVersions ==
    /\ cmd = "list" /\ pc = "getVersions"
    /\ log' = Append(log, "getVersions")
    /\ \E ok \in BOOLEAN :
        IF ~ok
        THEN /\ Finish(0, <<"Error retrieving agent versions">>)
             /\ UNCHANGED listing
        ELSE IF Recorded(versions) = {}
        THEN /\ Finish(0, <<"No versions found for this agent">>)
             /\ UNCHANGED listing
        ELSE /\ listing' = [v \in VersionIds |->
                              IF versions[v] = "none" THEN "none"
                              ELSE StatusIcon(versions[v])]
             /\ Finish(0, <<"versions found">>)
    /\ UNCHANGED <<localVars, tree, agentRec, versions, cmd, opts,
                   versions0, queried, manifest, result, gitSeen, warnings,
                   answer,
                   auxVars>>

(***************************************************************************)
(* directive status agent <name>                                           *)
(***************************************************************************)

\* Agent.status as the backend may send it: the five declared values and
\* "unknown" for any other string.
AgentStatuses == {"created", "deployed", "running", "stopped", "error",
                  "unknown"}

\* One printed line: its text and the directive command it proposes.
Line(text, command) == [text |-> text, command |-> command]

\* Variant: a stopped agent is treated like a running one and an agent in
\* error gets the plain redeploy.
RecommendedActionsNoRestart(status) ==
    IF status = "created"
    THEN <<Line("Deployer l'agent", "deploy agent")>>
    ELSE IF status = "deployed"
    THEN <<Line("L'agent est deploye et pret a etre utilise", "none")>>
    ELSE IF status \in {"running", "stopped"}
    THEN <<Line("L'agent fonctionne correctement", "none")>>
    ELSE IF status = "error"
    THEN <<Line("Verifier les logs d'erreur", "none"),
           Line("Redeployer", "deploy agent")>>
    ELSE <<Line("Etat inconnu, verifier manuellement", "none")>>

\* The switch on agent.status at the end of displayAgentStatus.
RecommendedActions(status) ==
    IF status = "created"
    THEN <<Line("Deployer l'agent", "deploy agent")>>
    ELSE IF status = "deployed"
    THEN <<Line("L'agent est deploye et pret a etre utilise", "none")>>
    ELSE IF status = "running"
    THEN <<Line("L'agent fonctionne correctement", "none")>>
    ELSE IF status = "stopped"
    THEN <<Line("Redemarrer", "deploy agent")>>
    ELSE IF status = "error"
    THEN <<Line("Verifier les logs d'erreur", "none"),
           Line("Redeployer", "deploy agent --force")>>
    ELSE <<Line("Etat inconnu, verifier manuellement", "none")>>

\* The action callback up to its first await: the type argument check.
StatusStart ==
    /\ cmd = "none"
    /\ cmd' = "status"
    /\ opts' = NoOpts
    /\ \E type \in {"agent", "other"} :
        IF type # "agent"
        THEN Finish(1, <<"Only agent type is supported">>)
        ELSE Goto("auth")
    /\ log' = <<>>
    /\ versions0' = versions
    /\ UNCHANGED <<localVars, tree, agentRec, versions, obsVars>>

\* ConfigService.isLoggedIn: a token and a user profile.
StatusEnsureAuthenticated ==
    /\ cmd = "status" /\ pc = "auth"
    /\ IF ~(authToken /\ user)
       THEN Finish(1, <<"Authentication required">>)
       ELSE Goto("project")
    /\ UNCHANGED <<localVars, tree, agentRec, versions, cmd, opts, log,
                   versions0, obsVars>>

\* validateDirectiveProject, then getProjectName reading directive-conf.ts.
StatusValidateDirectiveProject ==
    /\ cmd = "status" /\ pc = "project"
    /\ \E nameOk \in BOOLEAN :
        IF ~inProject
        THEN Finish(1, <<"Not in a Directive project">>)
        ELSE IF ~nameOk
        THEN Rethrow("Cannot read project configuration",
                     <<"Cannot find application name">>)
        ELSE Goto("getAgents")
    /\ UNCHANGED <<localVars, tree, agentRec, versions, cmd, opts, log,
                   versions0, obsVars>>

\* apiService.getAgents and the search for <project>/<name>; the record
\* found carries the status the backend holds for the agent.
StatusGetAgents ==
    /\ cmd = "status" /\ pc = "getAgents"
    /\ log' = Append(log, "getAgents")
    /\ \E ok \in BOOLEAN, st \in AgentStatuses :
        IF ~ok
        THEN Finish(1, <<"request failed">>) /\ UNCHANGED advice
        ELSE IF ~agentRec
        THEN Finish(0, <<"Agent not found">>) /\ UNCHANGED advice
        ELSE /\ advice' = [status |-> st, lines |-> <<>>]
             /\ Goto("display")
    /\ UNCHANGED <<localVars, tree, agentRec, versions, cmd, opts,
                   versions0, queried, manifest, result, gitSeen, warnings,
                   listing, answer, response, commitMsg, artifact>>

\* displayAgentStatus: prints the record, then the recommended actions.
DisplayAgentStatus ==
    /\ cmd = "status" /\ pc = "display"
    /\ advice' = [advice EXCEPT !.lines = RecommendedActions(advice.status)]
    /\ Finish(0, <<"Agent found">>)
    /\ UNCHANGED <<localVars, tree, agentRec, versions, cmd, opts, log,
                   versions0, queried, manifest, result, gitSeen, warnings,
                   listing, answer, response, commitMsg, artifact>>

(***************************************************************************)
(* End of the invocation and the next-state relation                       *)
(***************************************************************************)

\* The process exits; the next invocation starts from a fresh process.
Exit ==
    /\ pc = "done"
    /\ cmd' = "none"
    /\ pc' = "idle"
    /\ opts' = NoOpts
    /\ log' = <<>>
    /\ exitCode' = -1
    /\ report' = <<>>
    /\ failed' = "none"
    /\ versions0' = NoVersions
    /\ queried' = NoQuery
    /\ manifest' = NoManifest
    /\ result' = NoResult
    /\ gitSeen' = "notrun"
    /\ warnings' = {}
    /\ listing' = NoListing
    /\ answer' = "none"
    /\ cause' = <<>>
    /\ response' = "none"
    /\ commitMsg' = "none"
    /\ artifact' = <<>>
    /\ advice' = NoAdvice
    /\ UNCHANGED <<localVars, tree, agentRec, versions>>

Next ==
    \/ DeployStart
    \/ DeployEnsureAuthenticated
    \/ DeployValidateDirectiveProject
    \/ GetAgentId
    \/ ValidateAgentExists
    \/ CheckGitStatus
    \/ CompileAgent
    \/ PrepareBundleForUpload
    \/ UploadBundleToServer
    \/ DeleteStart
    \/ DeleteEnsureAuthenticated
    \/ DeleteValidateDirectiveProject
    \/ DeleteGetAgents
    \/ ConfirmDeleteEntireAgent
    \/ DeleteAllAgentVersions
    \/ DeleteAgent
    \/ GetAgentVersions
    \/ ConfirmDeleteAgentVersion
    \/ DeleteAgentVersion
    \/ DeleteAppStart
    \/ DeleteAppEnsureAuthenticated
    \/ DeleteAppGetApplications
    \/ ConfirmDeleteApp
    \/ DeleteApplication
    \/ ListStart
    \/ ListEnsureAuthenticated
    \/ ListValidateDirectiveProject
    \/ ListGetAgents
    \/ ListGetVersions
    \/ StatusStart
    \/ StatusEnsureAuthenticated
    \/ StatusValidateDirectiveProject
    \/ StatusGetAgents
    \/ DisplayAgentStatus
    \/ Exit

Spec == Init /\ [][Next]_vars

(***************************************************************************)
(* The bundle preparation over all its inputs: a deploy under ignore that  *)
(* has compiled the agent and is about to prepare the bundle.              *)
(***************************************************************************)

InitHash ==
    /\ authToken = TRUE /\ user = TRUE
    /\ inProject = TRUE /\ agentLocal = TRUE
    /\ tree \in {"clean", "dirty"}
    /\ agentRec = TRUE
    /\ versions = NoVersions
    /\ cmd = "deploy"
    /\ pc = "prepare"
    /\ opts = [NoOpts EXCEPT !.strategy = "ignore"]
    /\ log = <<"getAgents", "checkGitStatus", "build">>
    /\ exitCode = -1
    /\ report = <<>>
    /\ versions0 = NoVersions
    /\ queried = NoQuery
    /\ manifest = NoManifest
    /\ result = NoResult
    /\ gitSeen = "notrun"
    /\ failed = "none"
    /\ warnings = {}
    /\ listing = NoListing
    /\ answer = "none"
    /\ cause = <<>>
    /\ response = "none"
    /\ commitMsg = "none"
    /\ artifact = <<>>
    /\ advice = NoAdvice

NextHash ==
    \/ PrepareAnyBundle
    \/ UploadBundleToServer
    \/ Exit

SpecHash == InitHash /\ [][NextHash]_vars

(***************************************************************************)
(* Several machines on the same agent: beside the delete invocation of     *)
(* this machine, other invocations deploy to the agent and delete versions *)
(* of it.  Every request of another invocation takes effect at the backend *)
(* between two steps of this one.                                          *)
(***************************************************************************)

\* A logged-in developer inside a project whose agent is registered.
InitConc ==
    /\ Init
    /\ authToken /\ user /\ inProject /\ agentLocal /\ agentRec
    /\ tree = "clean"

\* Another invocation's upload is accepted by the backend.
OtherDeploy ==
    /\ agentRec
    /\ \E nv \in FreeIds(versions), demoted \in {"inactive", "rollback"} :
        versions' = BackendUpload(versions, nv, demoted)
    /\ UNCHANGED <<localVars, tree, agentRec, cmd, pc, opts, log, exitCode,
                   report, versions0, failed, cause, obsVars>>

\* Another invocation's delete --version, for a version its own query showed
\* as not active, is carried out by the backend.
OtherDeleteVersion ==
    /\ agentRec
    /\ \E v \in Recorded(versions) \ ActiveSet(versions) :
        versions' = BackendDeleteVersion(versions, v)
    /\ UNCHANGED <<localVars, tree, agentRec, cmd, pc, opts, log, exitCode,
                   report, versions0, failed, cause, obsVars>>

NextConc ==
    \/ DeleteStart
    \/ DeleteEnsureAuthenticated
    \/ DeleteValidateDirectiveProject
    \/ DeleteGetAgents
    \/ ConfirmDeleteEntireAgent
    \/ DeleteAllAgentVersions
    \/ DeleteAgent
    \/ GetAgentVersions
    \/ ConfirmDeleteAgentVersion
    \/ DeleteAgentVersion
    \/ OtherDeploy
    \/ OtherDeleteVersion
    \/ Exit

SpecConc == InitConc /\ [][NextConc]_vars

(***************************************************************************)
(* Progress of a deploy that is about to prepare and upload its bundle.    *)
(* The program's own continuations run whenever they can: preparing the    *)
(* bundle and leaving the process need nothing but the event loop.  At     *)
(* pc = "upload" the request is in flight and the invocation is suspended  *)
(* in `await fetch(...)` and the reads of the response body;               *)
(* UploadBundleToServer is the settling of these awaits.  The call passes  *)
(* no signal and arms no timer, so the awaits settle only when the other   *)
(* side completes or breaks the exchange: no fairness is stated for the    *)
(* step.                                                                   *)
(***************************************************************************)

SpecLive ==
    /\ InitHash
    /\ [][NextHash]_vars
    /\ WF_vars(PrepareAnyBundle)
    /\ WF_vars(Exit)

TypeOK ==
    /\ authToken \in BOOLEAN /\ user \in BOOLEAN
    /\ inProject \in BOOLEAN /\ agentLocal \in BOOLEAN
    /\ tree \in {"clean", "dirty"}
    /\ agentRec \in BOOLEAN
    /\ versions \in [VersionIds -> VersionStatus \cup {"none"}]
    /\ cmd \in {"none", "deploy", "delete", "deleteApp", "list", "status"}
    /\ advice.status \in AgentStatuses \cup {"none"}
    /\ exitCode \in {-1, 0, 1}
    /\ (pc = "done") = (exitCode # -1)
    /\ gitSeen \in {"notrun", "failed", "clean", "dirty"}

(***************************************************************************)
(* Properties                                                              *)
(***************************************************************************)

IsStageEvent(e) == e \in {"checkGitStatus", "build", "prepare", "upload"}

\* The pipeline stages this invocation has invoked, in order.
Stages(s) == SelectSeq(s, IsStageEvent)

IsPrefix(a, b) == Len(a) <= Len(b) /\ SubSeq(b, 1, Len(a)) = a

\* Position of the first occurrence of e in s (0 when absent).
IndexOf(s, e) ==
    IF Count(s, e) = 0 THEN 0
    ELSE CHOOSE i \in 1..Len(s) : s[i] = e /\ \A j \in 1..(i - 1) : s[j] # e

\* The delete --version invocation has received the versions query result.
TargetQueried == cmd = "delete" /\ queried.done /\ opts.version \in VersionIds

\* C1: under strategy strict, once the git status query has succeeded and
\* reported uncommitted changes, the deploy invocation has ended with an
\* error and has invoked neither the build command nor the upload request.
C1_StrictBlocksBuildAndUpload ==
    (cmd = "deploy" /\ opts.strategy = "strict" /\ gitSeen = "dirty")
        => /\ pc = "done"
           /\ exitCode = 1
           /\ Count(log, "build") = 0
           /\ Count(log, "upload") = 0

C1_Witness ==
    /\ cmd = "deploy" /\ opts.strategy = "strict"
    /\ gitSeen = "dirty" /\ pc = "done"
    /\ failed = "git"

\* C2: under strategy ignore the git guard never runs the status query and
\* never commits, whatever the working tree is, and the step that runs the
\* guard always hands over to the build stage.
C2_IgnoreSkipsInspection ==
    /\ [](cmd = "deploy" /\ opts.strategy = "ignore"
            => /\ Count(log, "gitStatus") = 0
               /\ Count(log, "commit") = 0
               /\ gitSeen = "notrun")
    /\ [][cmd = "deploy" /\ opts.strategy = "ignore" /\ pc = "git"
            => pc' = "build" /\ tree' = tree]_vars

C2_Witness ==
    /\ cmd = "deploy" /\ opts.strategy = "ignore" /\ tree = "dirty"
    /\ Count(log, "checkGitStatus") = 1
    /\ Count(log, "build") = 1

\* C3: the stages of a deploy invocation are invoked in the order git check,
\* build, preparation, upload, each at most once; a stage starts only when
\* all earlier stages have run and none has thrown; once a stage has thrown
\* the invocation is over and that stage is the last one invoked.
C3_StagesInStrictSequence ==
    cmd = "deploy" =>
        LET st == Stages(log) IN
        /\ IsPrefix(st, StageEvents)
        /\ failed # "none" => pc = "done" /\ exitCode = 1
        /\ \A i \in 1..Len(StagePcs) :
              /\ pc = StagePcs[i] => Len(st) = i - 1 /\ failed = "none"
              /\ failed = StagePcs[i] => Len(st) = i
        /\ failed \in {"idle", "auth", "project", "agentId", "agentExists"}
              => st = <<>>

C3_Witness ==
    /\ cmd = "deploy" /\ failed = "build"
    /\ Stages(log) = <<"checkGitStatus", "build">>

\* C4: when the versions query shows the target of delete --version as
\* active, no DELETE version request is sent and the version set is the one
\* the invocation started with.
C4_ActiveTargetNotDeleted ==
    (TargetQueried /\ queried.vs[opts.version] = "active")
        => /\ pc = "done"
           /\ Count(log, "deleteVersion") = 0
           /\ versions = versions0

C4_Witness ==
    /\ TargetQueried /\ queried.vs[opts.version] = "active"
    /\ Cardinality(Recorded(versions)) >= 2

\* C5: when the versions query holds no version with the target identifier,
\* no DELETE version request is sent and the version set is unchanged.
C5_UnknownTargetNoDeleteCall ==
    (TargetQueried /\ queried.vs[opts.version] = "none")
        => /\ pc = "done"
           /\ Count(log, "deleteVersion") = 0
           /\ versions = versions0

C5_Witness ==
    /\ TargetQueried /\ queried.vs[opts.version] = "none"
    /\ Recorded(versions) # {}

\* C6: delete --version ends with an error outcome whenever the target is
\* active or unknown, and the two refusals are told apart.
C6_RefusalsAreFailures ==
    (TargetQueried /\ queried.vs[opts.version] \in {"active", "none"})
        => /\ pc = "done"
           /\ exitCode = 1
           /\ queried.vs[opts.version] = "active"
                => report = <<"Cannot delete active version">>
           /\ queried.vs[opts.version] = "none"
                => report = <<"Version not found">>

\* The target exists, is not active, and the deletion was asked for with
\* --force or confirmed at the prompt; the invocation is over.
DeletableConfirmedDone ==
    /\ TargetQueried /\ pc = "done"
    /\ queried.vs[opts.version] \in {"inactive", "rollback"}
    /\ (opts.force \/ answer = "yes")

\* C7 as stated: such a deletion sends exactly one DELETE request, succeeds,
\* and leaves the previous version set minus the target.
C7_DeleteAlwaysSucceeds ==
    DeletableConfirmedDone
        => /\ Count(log, "deleteVersion") = 1
           /\ exitCode = 0
           /\ versions = BackendDeleteVersion(versions0, opts.version)

\* C7 amended: such a deletion sends exactly one DELETE request for the
\* target; when the backend answers it with success the command succeeds and
\* the version set is the previous one minus the target, all other versions
\* and statuses unchanged; when the request fails the command ends with an
\* error and the version set is the previous one, or the previous one minus
\* the target when only the response was lost.
C7_DeleteSendsOneRequest ==
    DeletableConfirmedDone
        => /\ Count(log, "deleteVersion") = 1
           /\ exitCode = 0
                => versions = BackendDeleteVersion(versions0, opts.version)
           /\ exitCode = 1
                => /\ report = <<"Error deleting agent version">>
                   /\ versions \in
                        {versions0,
                         BackendDeleteVersion(versions0, opts.version)}

C7_Witness ==
    /\ DeletableConfirmedDone /\ exitCode = 0
    /\ answer = "yes"
    /\ ActiveSet(versions) # {}
    /\ versions[opts.version] = "none"

\* C8: at most one version of the agent is active in every reachable state,
\* and a versions listing shows at most one version as the active one.
C8_AtMostOneActive ==
    /\ Cardinality(ActiveSet(versions)) <= 1
    /\ Cardinality({v \in VersionIds : listing[v] = "rocket"}) <= 1

C8_Witness ==
    /\ cmd = "list" /\ pc = "done"
    /\ Cardinality({v \in VersionIds : listing[v] = "rocket"}) = 1
    /\ Cardinality({v \in VersionIds : listing[v] = "package"}) >= 1

\* C9: after a successful deploy of an agent whose version V0 was active,
\* the only active version is the newly uploaded one, and V0 is still
\* recorded, as inactive or rollback.
C9_DeploySupersedesActive ==
    (cmd = "deploy" /\ pc = "done" /\ exitCode = 0)
        => \A v0 \in ActiveSet(versions0) :
              /\ result.present
              /\ result.version # v0
              /\ versions0[result.version] = "none"
              /\ ActiveSet(versions) = {result.version}
              /\ versions[v0] \in {"inactive", "rollback"}

C9_Witness ==
    /\ cmd = "deploy" /\ pc = "done" /\ exitCode = 0
    /\ ActiveSet(versions0) # {}

StagePrefix(stage) ==
    IF stage = "build" THEN <<"Agent compilation failed">>
    ELSE IF stage = "prepare" THEN <<"Failed to prepare bundle">>
    ELSE IF stage = "upload" THEN <<"Failed to upload bundle">>
    ELSE <<>>

\* C11 (as stated): when a deploy stage (git guard, build, bundle
\* preparation, upload) fails, the message that reaches the command's catch
\* block is the message of the error first thrown inside the stage.
C11_StageErrorUnchanged ==
    (cmd = "deploy" /\ failed \in {"git", "build", "prepare", "upload"})
        => report = cause

\* C11 (amended): the error reaching the catch block is the one the stage
\* function threw: the git guard's error unchanged, and for build, bundle
\* preparation and upload a new error made once by the stage itself, whose
\* message is the stage's prefix followed by the original message.
C11_StageErrorWrappedOnce ==
    (cmd = "deploy" /\ failed \in {"git", "build", "prepare", "upload"})
        => /\ pc = "done" /\ exitCode = 1
           /\ cause # <<>>
           /\ report = StagePrefix(failed) \o cause
           /\ failed = "git" => report = cause

C11_Witness ==
    /\ cmd = "deploy" /\ failed = "build"
    /\ cause = <<"Command failed">>
    /\ report = <<"Agent compilation failed", "Command failed">>

\* The git status query, the build command and the upload request have each
\* been invoked at most once by the running deploy.
EachInvokedAtMostOnce ==
    /\ Count(log, "gitStatus") <= 1
    /\ Count(log, "build") <= 1
    /\ Count(log, "upload") <= 1

\* C12 (as stated): within one deploy the git status query, the build
\* command and the upload request are each invoked at most once, and once
\* any of them has failed the invocation has ended.
C12_FailureEndsInvocation ==
    cmd = "deploy"
        => /\ EachInvokedAtMostOnce
           /\ (gitSeen = "failed" \/ failed \in {"build", "upload"})
                 => pc = "done" /\ exitCode = 1

\* C12 (amended): each of the three is invoked at most once; a failed build
\* or upload, or a block by the git guard, ends the invocation with exit
\* code 1; a failed status query is not repeated either, but the guard
\* does not fail on it.
C12_AtMostOnceNoRetry ==
    cmd = "deploy"
        => /\ EachInvokedAtMostOnce
           /\ failed \in {"git", "build", "upload"}
                 => pc = "done" /\ exitCode = 1
           /\ gitSeen = "failed"
                 => Count(log, "gitStatus") = 1 /\ failed # "git"

C12_Witness ==
    /\ cmd = "deploy" /\ gitSeen = "failed"
    /\ failed = "upload" /\ response = "netfail"
    /\ Count(log, "upload") = 1 /\ Count(log, "build") = 1

\* No git command, build or upload has been invoked by this invocation.
NothingInvoked ==
    \A e \in {"checkGitStatus", "gitStatus", "commit", "build", "upload"} :
        Count(log, e) = 0

\* C13 (as stated): when the agent's local files are missing, a deploy ends
\* with the agent-not-found error, with no git check, build, upload or
\* commit invoked.
C13_MissingAgentFailsNotFound ==
    (cmd = "deploy" /\ ~agentLocal /\ pc = "done")
        => /\ report = <<"Agent not found in agents/">>
           /\ NothingInvoked

\* C13 (amended): when the agent's local files are missing, a deploy never
\* reaches the git check, the build or the upload and makes no commit; it
\* ends with exit code 1, with the agent-not-found error when the earlier
\* checks (type argument, authentication, project, agent id lookup) passed
\* and with the failing earlier check's error otherwise.
C13_MissingAgentStopsBeforeGit ==
    (cmd = "deploy" /\ ~agentLocal)
        => /\ NothingInvoked
           /\ pc \notin {"git", "build", "prepare", "upload"}
           /\ pc = "done"
                 => /\ exitCode = 1
                    /\ failed \in {"idle", "auth", "project", "agentId",
                                   "agentExists"}
                    /\ (failed = "agentExists")
                          = (report = <<"Agent not found in agents/">>)

C13_Witness ==
    /\ cmd = "deploy" /\ ~agentLocal
    /\ failed = "agentExists" /\ log = <<"getAgents">>
    /\ report = <<"Agent not found in agents/">>

\* C14: when the upload request comes back with a non-2xx status, or with
\* an envelope whose success flag is false, the upload stage fails with
\* an upload error that carries the transport status, respectively the
\* backend's error text when it gave one; no deployment result is returned
\* and the deploy ends as failed.
C14_UploadFailsOnBadResponse ==
    (cmd = "deploy" /\ response \in {"http", "rejected", "rejectedNoMsg"})
        => /\ pc = "done" /\ exitCode = 1 /\ failed = "upload"
           /\ result = NoResult
           /\ report[1] = "Failed to upload bundle"
           /\ response = "http" => "HTTP status" \in Elements(report)
           /\ response = "rejected" => "backend error" \in Elements(report)

C14_Witness ==
    /\ cmd = "deploy" /\ response = "rejected" /\ failed = "upload"
    /\ report = <<"Failed to upload bundle", "backend error">>

\* C15: when the git status query itself fails, the guard logs a warning
\* and the pipeline goes on to the build under every strategy that inspects
\* the tree; the guard aborts the deploy only under strict with a change
\* positively detected.
C15_AbortOnlyStrictAndDirty ==
    cmd = "deploy"
        => /\ gitSeen = "failed"
                 => /\ "Cannot check Git status" \in warnings
                    /\ failed # "git"
                    /\ pc = "done" => Count(log, "build") = 1
           /\ failed = "git"
                 => opts.strategy = "strict" /\ gitSeen = "dirty"

\* The build stage of the running deploy has started.
BuildStarted == pc \in {"build", "prepare", "upload"} \/ Count(log, "build") > 0

\* C16: under auto-commit with uncommitted changes detected, a commit is
\* made with the given message, or with a generated one when none is given,
\* and whenever the build stage has started the detected changes have been
\* committed.
C16_BuildOnlyAfterCommit ==
    (cmd = "deploy" /\ opts.strategy = "auto-commit" /\ gitSeen = "dirty")
        => /\ Count(log, "commit") = 1
           /\ commitMsg = IF opts.message = "none" THEN "generated"
                          ELSE opts.message
           /\ BuildStarted => tree = "clean"

\* C17: under warn, uncommitted changes detected by the status query are
\* reported as a warning and never block: the guard does not fail, the
\* tree is left as it is and the build stage is started.
C17_WarnNeverBlocks ==
    (cmd = "deploy" /\ opts.strategy = "warn")
        => /\ failed # "git"
           /\ gitSeen = "dirty"
                 => /\ PolicyPhrase \in warnings
                    /\ tree = "dirty"
                    /\ BuildStarted

C17_Witness ==
    /\ cmd = "deploy" /\ opts.strategy = "warn" /\ gitSeen = "dirty"
    /\ PolicyPhrase \in warnings
    /\ Count(log, "build") = 1 /\ pc = "prepare"

\* The commands proposed by the printed lines, in order.
Proposed(lines) == [i \in 1..Len(lines) |-> lines[i].command]

\* What the status command printed for the status it was given.
ProjectionAsSpecified ==
    LET st == advice.status
        p == Proposed(advice.lines)
    IN  /\ Len(advice.lines) >= 1
        /\ st = "created" => p = <<"deploy agent">>
        /\ st \in {"deployed", "running"} => p = <<"none">>
        /\ st = "stopped" => p = <<"deploy agent">>
        /\ st = "error"
              => /\ p = <<"none", "deploy agent --force">>
                 /\ advice.lines[1].text = "Verifier les logs d'erreur"
        /\ st \notin {"created", "deployed", "running", "stopped", "error"}
              => /\ p = <<"none">>
                 /\ advice.lines[1].text
                        = "Etat inconnu, verifier manuellement"

C18_CommitOnlyByAutoCommitGuard ==
    /\ [](Count(log, "commit") > 0
            => /\ cmd = "deploy" /\ opts.strategy = "auto-commit"
               /\ Count(log, "commit") = 1
               /\ IndexOf(log, "commit") = IndexOf(log, "gitStatus") + 1
               /\ IndexOf(log, "gitStatus")
                     = IndexOf(log, "checkGitStatus") + 1
               /\ Count(log, "build") > 0
                     => IndexOf(log, "commit") < IndexOf(log, "build"))
    /\ [][tree' # tree
            => /\ cmd = "deploy" /\ pc = "git"
               /\ opts.strategy = "auto-commit"
               /\ Count(log', "commit") = 1]_vars

C18_Witness ==
    /\ cmd = "deploy" /\ opts.strategy = "auto-commit"
    /\ Count(log, "commit") = 1 /\ tree = "clean" /\ gitSeen = "dirty"
    /\ Count(log, "upload") = 1

\* C20: the build hash of the manifest depends on the bytes of the bundle
\* only: a deploy of the same bytes at any other build time, with any
\* other dependency map, git revision or declared version puts the same
\* buildHash in its manifest.
C20_BuildHashOfBytesOnly ==
    (cmd = "deploy" /\ manifest # NoManifest)
        => /\ Len(manifest.buildHash) = HashPrefixLen
           /\ \A version \in DeclaredVersions, now \in BuildTimes,
                 deps \in {"read", "empty"}, gitCommit \in BOOLEAN :
                 BundleData(artifact, version, now, deps, gitCommit).buildHash
                     = manifest.buildHash

C20_Witness ==
    /\ cmd = "deploy" /\ pc = "upload"
    /\ artifact \in Artifacts
    /\ manifest.gitCommit /\ manifest.deps = "read"
    /\ Len(manifest.buildHash) = HashPrefixLen
    /\ manifest.buildTime = "t2" /\ manifest.version = "1.1.0"

\* The version recorded by the backend during the running invocation.
NewVersions == {v \in VersionIds : versions0[v] = "none" /\ versions[v] # "none"}

\* C21: with a clean tree under strict, a successful build and an upload
\* the backend accepts, the deploy ends with no error and its result
\* carries the version and the bundle size of the backend's response data.
C21_AcceptedDeployCarriesResponseData ==
    (cmd = "deploy" /\ opts.strategy = "strict" /\ gitSeen = "clean"
        /\ response = "accepted")
        => /\ pc = "done" /\ exitCode = 0 /\ failed = "none"
           /\ Stages(log) = StageEvents
           /\ result.present
           /\ NewVersions = {result.version}
           /\ result.bundleSize = Len(artifact)
           /\ result.bundleSize > 0

C21_Witness ==
    /\ cmd = "deploy" /\ opts.strategy = "strict" /\ gitSeen = "clean"
    /\ response = "accepted" /\ exitCode = 0
    /\ result.present /\ result.bundleSize = 1

CreatesOneVersion ==
    \E nv \in VersionIds :
        /\ versions[nv] = "none"
        /\ Recorded(versions') = Recorded(versions) \cup {nv}

\* The step removes version records and leaves the others as they were.
OnlyRemovesVersions ==
    \A v \in VersionIds : versions'[v] \in {versions[v], "none"}

\* list and status have sent only read requests, and they and a deploy that
\* has not sent the upload have left the version set as they found it.
ReadersLeaveVersions ==
    /\ cmd \in {"list", "status"}
          => /\ Elements(log) \subseteq {"getAgents", "getVersions"}
             /\ versions = versions0
    /\ (cmd = "deploy" /\ Count(log, "upload") = 0)
          => versions = versions0

\* C23: the version set changes only in three steps: the upload of a deploy
\* (one record created), DELETE version and DELETE all versions (records
\* removed, the others untouched).  list --versions and status send only
\* read requests, and a deploy that has not reached the upload leaves the
\* version set as it found it.
C23_VersionsChangeOnlyByUploadAndDelete ==
    /\ []ReadersLeaveVersions
    /\ [][versions' # versions
            => \/ /\ cmd = "deploy" /\ pc = "upload"
                  /\ response' \in {"accepted", "nodata", "lost"}
                  /\ CreatesOneVersion
               \/ /\ cmd = "delete" /\ pc = "deleteVersion"
                  /\ Recorded(versions')
                        = Recorded(versions) \ {opts.version}
                  /\ OnlyRemovesVersions
               \/ /\ cmd = "delete" /\ pc = "deleteAllVersions"
                  /\ OnlyRemovesVersions]_vars

C23_Witness ==
    /\ cmd = "deploy" /\ failed = "prepare" /\ pc = "done"
    /\ Count(log, "build") = 1 /\ Count(log, "upload") = 0
    /\ Recorded(versions) # {} /\ versions = versions0

\* The delete --version invocation is about to send its DELETE request.
SendingDeleteVersion == cmd = "delete" /\ pc = "deleteVersion"

\* C24: with deploys and deletes of other invocations interleaved between
\* the versions query, the prompt and the DELETE, the version named by the
\* DELETE version request is not active in the backend when the request is
\* sent.
C24_ActiveNeverDeleteTarget ==
    SendingDeleteVersion => versions[opts.version] # "active"

\* C25: a deploy invocation that has reached the upload stage eventually
\* ends, with success or with an error, whatever the backend does with the
\* request.
C25_UploadTerminates ==
    (cmd = "deploy" /\ pc = "upload") ~> (pc = "done")

\* The deploy is at the upload stage or has been through it.
ReachedUpload == pc = "upload" \/ Count(log, "upload") = 1

\* C26: the preparation of the bundle fails only for a missing compiled
\* bundle or an unreadable agent.json; an unreadable package.json gives a
\* warning and the empty dependency map, an unavailable git revision a
\* manifest without gitCommit, and in both cases the pipeline goes on to the
\* upload stage.
C26_MissingProvenanceNeverAborts ==
    cmd = "deploy" =>
        /\ failed = "prepare" =>
               /\ cause \in {<<"Compiled agent not found">>,
                             <<"agent.json unreadable">>}
               /\ manifest = NoManifest
        /\ "Cannot read package.json dependencies" \in warnings =>
               /\ manifest.deps = "empty"
               /\ ReachedUpload
        /\ (manifest # NoManifest /\ ~manifest.gitCommit) => ReachedUpload
        /\ Count(log, "gitRevParse") = 1 =>
               /\ manifest.deps \in {"read", "empty"}
               /\ ReachedUpload

\* A deploy without package.json and without git revision has succeeded.
C26_Witness ==
    /\ cmd = "deploy" /\ pc = "done" /\ exitCode = 0
    /\ manifest.deps = "empty" /\ ~manifest.gitCommit
    /\ "Cannot read package.json dependencies" \in warnings
    /\ result.present

\* C27: a deploy invocation that ends in failure has left the agent's
\* version set as it was when the invocation started.
C27_FailedDeployRecordsNothing ==
    (cmd = "deploy" /\ pc = "done" /\ exitCode = 1) => versions = versions0

\* C28: after a status query that reported uncommitted changes, the build
\* is started only under the strategy warn or auto-commit.
C28_DirtyBuildOnlyWarnOrAutoCommit ==
    (cmd = "deploy" /\ gitSeen = "dirty" /\ BuildStarted)
        => opts.strategy \in {"warn", "auto-commit"}

\* The DELETE requests of the client.
DeleteCalls ==
    {"deleteVersion", "deleteAllVersions", "deleteAgent", "deleteApplication"}

\* The calls a delete invocation makes up to its confirmation prompt.
LookupsThenPrompt ==
    {<<"getAgents", "getVersions", "prompt">>, <<"getAgents", "prompt">>,
     <<"getApplications", "prompt">>}

\* C29: in delete version, delete agent --all and delete app, once the
\* confirmation prompt is answered no the invocation ends with "Deletion
\* cancelled": it was started without --force, it has sent the lookups and
\* the prompt and no DELETE request, and the agent record and the version
\* set are those the invocation started with; while the prompt is open the
\* lookups before it have changed nothing either.
C29_DeclinedPromptDeletesNothing ==
    /\ (cmd \in {"delete", "deleteApp"} /\ answer = "no")
           => /\ pc = "done" /\ exitCode = 0
              /\ report = <<"Deletion cancelled">>
              /\ ~opts.force
              /\ log \in LookupsThenPrompt
              /\ Elements(log) \cap DeleteCalls = {}
              /\ versions = versions0
              /\ cmd = "delete" => agentRec
    /\ (cmd \in {"delete", "deleteApp"}
            /\ pc \in {"confirmVersion", "confirmAll", "confirmApp"})
           => /\ versions = versions0
              /\ Elements(log) \subseteq
                     {"getAgents", "getVersions", "getApplications"}
              /\ cmd = "delete" => agentRec

\* A delete --version of an existing inactive version was declined, with
\* another version active.
C29_Witness ==
    /\ cmd = "delete" /\ answer = "no" /\ opts.version # 0
    /\ versions[opts.version] = "inactive"
    /\ ActiveSet(versions) # {}

IsGitCall(e) == e \in {"gitStatus", "commit"}

\* The git commands this invocation has run, in order.
GitCalls(s) == SelectSeq(s, IsGitCall)

\* What the git guard can do for a strategy and a message, over every
\* answer of git and every working tree: nothing else enters.
GuardOutcomes(strategy, message) ==
    {GitGuard(strategy, gitOk, t, commitOk, message) :
        gitOk \in BOOLEAN, t \in {"clean", "dirty"}, commitOk \in BOOLEAN}

====
